---- MODULE Spec2Model ----
(***************************************************************************)
(* Model of local-clearlogo.py: the per-item logo matcher (process_item)   *)
(* and the run controller (main) in bulk and in search mode.               *)
(*                                                                         *)
(* Strings that the code compares character by character (remote paths,    *)
(* mapping keys, local roots) are sequences of one-character strings, so   *)
(* that str.startswith, os.path.dirname and pathlib's parsing are computed  *)
(* as Python computes them on POSIX paths.                                 *)
(***************************************************************************)
EXTENDS Integers, Sequences, FiniteSets, TLC

\* ------------------------------------------------------------------------
\* Strings and paths
\* ------------------------------------------------------------------------

Slash == "/"

\* The value None (an item without media parts / locations, stats=None).
NoneVal == <<"None">>

\* No path computed (local_folder not assigned)
NoFolder == [root |-> 0 - 1, parts |-> <<>>]

\* remote_path.startswith(plex_location_key)
StartsWith(s, p) == Len(p) <= Len(s) /\ SubSeq(s, 1, Len(p)) = p

\* s.rfind('/') + 1: the position of the last slash, 0 when there is none
RFindSlash(s) ==
    LET idx == {i \in 1..Len(s) : s[i] = Slash}
    IN  IF idx = {} THEN 0 ELSE CHOOSE i \in idx : \A j \in idx : j <= i

\* s.rstrip('/')
RECURSIVE RStripSlash(_)
RStripSlash(s) ==
    IF s # <<>> /\ s[Len(s)] = Slash THEN RStripSlash(SubSeq(s, 1, Len(s) - 1))
    ELSE s

AllSlashes(s) == \A i \in 1..Len(s) : s[i] = Slash

\* os.path.dirname (posixpath): the head up to the last slash, its trailing
\* slashes stripped unless it consists of slashes only
Dirname(p) ==
    LET head == SubSeq(p, 1, RFindSlash(p))
    IN  IF head # <<>> /\ ~AllSlashes(head) THEN RStripSlash(head) ELSE head

\* s.split('/') without the empty components
RECURSIVE SplitSegments(_)
SplitSegments(s) ==
    IF s = <<>> THEN <<>>
    ELSE IF s[1] = Slash THEN SplitSegments(Tail(s))
    ELSE LET stops == {i \in 1..Len(s) : s[i] = Slash}
             n == IF stops = {} THEN Len(s)
                  ELSE (CHOOSE i \in stops : \A j \in stops : i <= j) - 1
         IN  <<SubSeq(s, 1, n)>> \o SplitSegments(SubSeq(s, n + 1, Len(s)))

\* The number of leading slashes of s
RECURSIVE LeadingSlashes(_)
LeadingSlashes(s) ==
    IF s # <<>> /\ s[1] = Slash THEN 1 + LeadingSlashes(Tail(s)) ELSE 0

\* pathlib.PurePosixPath(s): a root ('' relative, '/' absolute, '//' for
\* exactly two leading slashes) and the non-empty segments
PathOf(s) ==
    [root  |-> IF LeadingSlashes(s) = 0 THEN 0
               ELSE IF LeadingSlashes(s) = 2 THEN 2 ELSE 1,
     parts |-> SplitSegments(s)]

IsPrefixSeq(p, s) == Len(p) <= Len(s) /\ SubSeq(s, 1, Len(p)) = p

\* Path.relative_to(other): the parts of p below other; ValueError (ok =
\* FALSE) when other's root or parts are not a leading part of p
RelativeTo(p, other) ==
    IF p.root = other.root /\ IsPrefixSeq(other.parts, p.parts)
    THEN [ok    |-> TRUE,
          parts |-> SubSeq(p.parts, Len(other.parts) + 1, Len(p.parts))]
    ELSE [ok |-> FALSE, parts |-> <<>>]

\* Path(remote_path).name wrapped in Path(): the last segment as a relative
\* path, the empty relative path when there is no segment
NameOf(s) ==
    LET parts == SplitSegments(s)
    IN  IF parts = <<>> THEN <<>> ELSE <<parts[Len(parts)]>>

\* local_base / relative_folder, relative_folder being a relative path
JoinPath(base, rel) == [root |-> base.root, parts |-> base.parts \o rel]

\* ------------------------------------------------------------------------
\* process_item
\* ------------------------------------------------------------------------

\* supported_prefixes x supported_extensions, in the order of the nested loops
supported_prefixes == <<"logo", "clearlogo">>
supported_extensions == <<".png", ".jpg">>

Candidates ==
    [k \in 1..(Len(supported_prefixes) * Len(supported_extensions)) |->
        <<supported_prefixes[((k - 1) \div Len(supported_extensions)) + 1],
          supported_extensions[((k - 1) % Len(supported_extensions)) + 1]>>]

\* What item.uploadLogo can do: return, or raise BadRequest, AttributeError
\* (the item type has no uploadLogo) or any other exception
UploadResults == {"ok", "BadRequest", "AttributeError", "Exception"}

\* An entry of the local filesystem: directory, file name, kind
\* ("file": a regular file, "dir": a directory)
EntryKinds == {"file", "dir"}

\* candidate.exists(): true of any kind of entry
Exists(fs, dir, name) == \E e \in fs : e.dir = dir /\ e.name = name

KindOf(fs, dir, name) ==
    IF Exists(fs, dir, name)
    THEN (CHOOSE e \in fs : e.dir = dir /\ e.name = name).kind
    ELSE "absent"

\* has_logo: some image of the item has type clearLogo
HasLogo(images) == \E i \in 1..Len(images) : images[i] = "clearLogo"

\* SkipHasLogo with a fault: the existing logo is never looked at
SkipHasLogoNever(images, upload_all) == FALSE

\* if has_logo and not upload_all: return stats
SkipHasLogo(images, upload_all) == HasLogo(images) /\ ~upload_all

\* remote_path: the first media part's file of a movie, the first location
\* of a show; None when there is none or the section is of another type
RemotePath(sectionType, item) ==
    IF sectionType \in {"movie", "show"} THEN item.path ELSE NoneVal

\* item_folder: set per section type, then overwritten for both types by
\* Path(os.path.dirname(remote_path)) before it is used
ItemFolder(sectionType, remote_path) == PathOf(Dirname(remote_path))

\* The first key of location_map, in its order, that remote_path starts with
MatchedLocation(location_map, remote_path) ==
    LET hits == {i \in 1..Len(location_map) :
                    StartsWith(remote_path, location_map[i].key)}
    IN  IF hits = {} THEN NoneVal
        ELSE location_map[CHOOSE i \in hits : \A j \in hits : i <= j].key

\* location_map[matched_location]
Lookup(location_map, key) ==
    location_map[CHOOSE i \in 1..Len(location_map) : location_map[i].key = key].val

\* RelativeFolder with a fault: a key that is a prefix of the string but no
\* ancestor of the folder is taken as the folder itself
RelativeFolderNoError(sectionType, remote_path, matched_location) ==
    LET rel == RelativeTo(ItemFolder(sectionType, remote_path),
                          PathOf(matched_location))
    IN  IF ~rel.ok \/ rel.parts = <<>>
        THEN [ok |-> TRUE, parts |-> NameOf(remote_path)]
        ELSE rel

\* relative_folder: item_folder relative to the matched key, the last
\* segment of remote_path when that is '.'; ValueError gives ok = FALSE
RelativeFolder(sectionType, remote_path, matched_location) ==
    LET rel == RelativeTo(ItemFolder(sectionType, remote_path),
                          PathOf(matched_location))
    IN  IF ~rel.ok THEN rel
        ELSE IF rel.parts = <<>>
             THEN [ok |-> TRUE, parts |-> NameOf(remote_path)]
             ELSE rel

\* The exists() calls of the candidate loops: the candidates are probed in
\* order up to and including the first that exists
ProbedCount(fs, local_folder) ==
    LET found == {k \in DOMAIN Candidates : Exists(fs, local_folder, Candidates[k])}
    IN  IF found = {} THEN Len(Candidates)
        ELSE CHOOSE k \in found : \A j \in found : k <= j

\* logo_path: the first candidate that exists, None when none does
LogoPath(fs, local_folder) ==
    LET found == {k \in DOMAIN Candidates : Exists(fs, local_folder, Candidates[k])}
    IN  IF found = {} THEN NoneVal
        ELSE Candidates[CHOOSE k \in found : \A j \in found : k <= j]

\* What one call leaves behind besides the returned stats
Outcome(stats, outcome, matched_location, local_folder, logo_path, probes, uploads) ==
    [stats            |-> stats,
     outcome          |-> outcome,
     matched_location |-> matched_location,
     local_folder     |-> local_folder,
     logo_path        |-> logo_path,
     probes           |-> probes,
     uploads          |-> uploads]

\* UploadStep with a fault: dry_run is not consulted
UploadStepNoDryRun(dry_run, stats, upres) ==
    LET m == [stats EXCEPT !.matched = @ + 1]
    IN  IF upres = "ok"
        THEN [stats   |-> [m EXCEPT !.uploaded = @ + 1],
              outcome |-> "uploaded", uploads |-> 1]
        ELSE [stats |-> m, outcome |-> "upload-failed", uploads |-> 1]

\* UploadStep with a fault: "uploaded" is counted whether or not uploadLogo
\* raised
UploadStepCountsFailures(dry_run, stats, upres) ==
    LET m == [stats EXCEPT !.matched = @ + 1]
        u == [m EXCEPT !.uploaded = @ + 1]
    IN  IF dry_run THEN [stats |-> m, outcome |-> "would-upload", uploads |-> 0]
        ELSE IF upres = "ok"
             THEN [stats |-> u, outcome |-> "uploaded", uploads |-> 1]
        ELSE IF upres = "BadRequest"
             THEN [stats |-> u, outcome |-> "upload-failed", uploads |-> 1]
        ELSE IF upres = "AttributeError"
             THEN [stats |-> u, outcome |-> "unsupported-item-type", uploads |-> 1]
        ELSE [stats |-> u, outcome |-> "upload-error", uploads |-> 1]

\* The outcome of the upload branch: stats["matched"] += 1, then dry run or
\* item.uploadLogo with its exception handlers
UploadStep(dry_run, stats, upres) ==
    LET m == [stats EXCEPT !.matched = @ + 1]
    IN  IF dry_run THEN [stats |-> m, outcome |-> "would-upload", uploads |-> 0]
        ELSE IF upres = "ok"
             THEN [stats   |-> [m EXCEPT !.uploaded = @ + 1],
                   outcome |-> "uploaded", uploads |-> 1]
        ELSE IF upres = "BadRequest"
             THEN [stats |-> m, outcome |-> "upload-failed", uploads |-> 1]
        ELSE IF upres = "AttributeError"
             THEN [stats |-> m, outcome |-> "unsupported-item-type", uploads |-> 1]
        ELSE [stats |-> m, outcome |-> "upload-error", uploads |-> 1]

\* process_item(item, section, location_map, upload_all, dry_run, verbose,
\* stats); upres is what item.uploadLogo does if it is called
process_item(item, sectionType, location_map, upload_all, dry_run, stats, fs, upres) ==
    LET remote_path == RemotePath(sectionType, item)
        matched_location == MatchedLocation(location_map, remote_path)
        relative_folder == RelativeFolder(sectionType, remote_path, matched_location)
        local_folder == JoinPath(PathOf(Lookup(location_map, matched_location)),
                                 relative_folder.parts)
        logo_path == LogoPath(fs, local_folder)
        up == UploadStep(dry_run, stats, upres)
    IN  IF SkipHasLogo(item.images, upload_all)
        THEN Outcome(stats, "skipped-has-logo", NoneVal, NoFolder, NoneVal, 0, 0)
        ELSE IF remote_path = NoneVal
        THEN Outcome(stats, "skipped-no-path", NoneVal, NoFolder, NoneVal, 0, 0)
        ELSE IF matched_location = NoneVal \/ matched_location = <<>>
        THEN Outcome(stats, "skipped-unmapped", NoneVal, NoFolder, NoneVal, 0, 0)
        ELSE IF ~relative_folder.ok
        THEN Outcome(stats, "skipped-unmapped", matched_location, NoFolder, NoneVal, 0, 0)
        ELSE IF logo_path = NoneVal
        THEN Outcome(stats, "skipped-no-logo-file", matched_location, local_folder,
                     NoneVal, ProbedCount(fs, local_folder), 0)
        ELSE Outcome(up.stats, up.outcome, matched_location, local_folder,
                     logo_path, ProbedCount(fs, local_folder) + 1, up.uploads)

\* ------------------------------------------------------------------------
\* main: configuration, mapping store
\* ------------------------------------------------------------------------

\* str(Path(s)): the root, the segments joined by '/', '.' when empty
RECURSIVE JoinSegments(_)
JoinSegments(parts) ==
    IF parts = <<>> THEN <<>>
    ELSE IF Len(parts) = 1 THEN parts[1]
    ELSE parts[1] \o <<Slash>> \o JoinSegments(Tail(parts))

PathStr(p) ==
    LET r == IF p.root = 2 THEN <<Slash, Slash>>
             ELSE IF p.root = 1 THEN <<Slash>> ELSE <<>>
    IN  IF p.root = 0 /\ p.parts = <<>> THEN <<".">>
        ELSE r \o JoinSegments(p.parts)

\* sorted(..., key=lambda item: len(item[0]), reverse=True): a stable sort,
\* entries of equal key length keep their order
RECURSIVE InsertByKeyLen(_, _)
InsertByKeyLen(sorted, e) ==
    IF sorted = <<>> THEN <<e>>
    ELSE IF Len(sorted[1].key) >= Len(e.key)
         THEN <<sorted[1]>> \o InsertByKeyLen(Tail(sorted), e)
         ELSE <<e>> \o sorted

RECURSIVE SortByKeyLen(_)
SortByKeyLen(m) ==
    IF m = <<>> THEN <<>>
    ELSE InsertByKeyLen(SortByKeyLen(SubSeq(m, 1, Len(m) - 1)), m[Len(m)])

\* SortedMap with a fault: the mapping is used in file order
SortedMapUnsorted(m) == m

\* location_map = dict(sorted(location_map.items(), ...))
SortedMap(m) == SortByKeyLen(m)

HasKey(m, key) == \E i \in 1..Len(m) : m[i].key = key

\* The locations of the movie and show sections, in prompt order
RECURSIVE PromptLocations(_)
PromptLocations(secs) ==
    IF secs = <<>> THEN <<>>
    ELSE (IF secs[1].type \in {"movie", "show"} THEN secs[1].locations ELSE <<>>)
         \o PromptLocations(Tail(secs))

\* The interactive population: a location already in the map is skipped, an
\* answer that is no existing directory (NoneVal here) is skipped, any other
\* is stored as str(Path(answer))
RECURSIVE Populate(_, _, _)
Populate(locs, answers, m) ==
    IF locs = <<>> THEN m
    ELSE IF HasKey(m, locs[1]) \/ answers[1] = NoneVal
         THEN Populate(Tail(locs), Tail(answers), m)
         ELSE Populate(Tail(locs), Tail(answers),
                       Append(m, [key |-> locs[1],
                                  val |-> PathStr(PathOf(answers[1]))]))

\* ------------------------------------------------------------------------
\* State
\* ------------------------------------------------------------------------

VARIABLES
    args,         \* parse_args(): all, search, dry_run, clear_mapping, max_results
    mappingFile,  \* local-mapping.json: exists, data (key/val entries in file order)
    sections,     \* plex.library.sections() with their items and the items' images
    fs,           \* the local filesystem entries below the local roots
    pc,           \* where the process is
    frames,       \* displaySummary of every active invocation of main, outermost first
    stats,        \* the stats dict, NoStats while it is None
    location_map, \* the sorted mapping of the innermost invocation of main
    cur,          \* bulk mode: section and item index of the loops
    results,      \* search mode: the results being processed by the 'ALL' loop
    ridx,         \* search mode: index into results
    summaries,    \* every summary printed: run, total, matched, uploaded, dry_run
    queries,      \* invocations of main in this process
    run,          \* how many times the script has been started
    last,         \* what the last process_item call did, and for which item
    processed,    \* process_item calls of this process
    uploadCalls,  \* item.uploadLogo calls of this process
    uploadFails,  \* the uploadLogo calls of this process that raised
    probeCalls    \* exists() calls of this process
vars == <<args, mappingFile, sections, fs, pc, frames, stats, location_map, cur,
          results, ridx, summaries, queries, run, last, processed, uploadCalls,
          uploadFails, probeCalls>>

NoStats == [total |-> 0 - 1, matched |-> 0 - 1, uploaded |-> 0 - 1]
ZeroStats == [total |-> 0, matched |-> 0, uploaded |-> 0]

NoCall == [item |-> <<0, 0>>, type |-> "none", has_logo |-> FALSE, before |-> NoStats]
          @@ Outcome(NoStats, "none", NoneVal, NoFolder, NoneVal, 0, 0)

\* ------------------------------------------------------------------------
\* Bounds and the sets the inputs are drawn from
\* ------------------------------------------------------------------------

\* Items per library section
MaxItems == 2
\* Invocations of main per process (the first and the chained queries)
MaxQueries == 2
\* Starts of the script
MaxRuns == 2

\* --max-results default
DefaultMaxResults == 30

RECURSIVE SeqsUpTo(_, _)
SeqsUpTo(S, n) ==
    IF n = 0 THEN {<<>>}
    ELSE LET shorter == SeqsUpTo(S, n - 1)
         IN  shorter \cup {Append(q, x) : q \in {t \in shorter : Len(t) = n - 1}, x \in S}

\* The absolute path with these segments
Abs(parts) == <<Slash>> \o JoinSegments(parts)

SegA == <<"a">>
SegAA == <<"a", "a">>
LocalX == <<Slash, "x">>
LocalY == <<Slash, "y">>

ImagePool == {<<"thumb">>, <<"thumb", "clearLogo">>}

ArtistSection == [type |-> "artist", locations |-> <<Abs(<<SegAA>>)>>, items |-> <<>>]

File(dir, k, kind) == [dir |-> PathOf(dir), name |-> Candidates[k], kind |-> kind]

\* ------------------------------------------------------------------------
\* Initial states
\* ------------------------------------------------------------------------

ArgsPool(searches, clears) ==
    [all : BOOLEAN, search : searches, dry_run : BOOLEAN, clear_mapping : clears,
     max_results : {DefaultMaxResults}]

NoFile == [exists |-> FALSE, data |-> <<>>]
FileOf(data) == [exists |-> TRUE, data |-> data]

\* The state when the script is started for the first time
InitWith(argsPool, files, libraries, filesystems) ==
    /\ args \in argsPool
    /\ mappingFile \in files
    /\ sections \in libraries
    /\ fs \in filesystems
    /\ pc = "main"
    /\ frames = <<>>
    /\ stats = NoStats
    /\ location_map = <<>>
    /\ cur = [sec |-> 1, idx |-> 0]
    /\ results = <<>>
    /\ ridx = 0
    /\ summaries = <<>>
    /\ queries = 1
    /\ run = 1
    /\ last = NoCall
    /\ processed = 0
    /\ uploadCalls = 0
    /\ uploadFails = 0
    /\ probeCalls = 0

\* ------------------------------------------------------------------------
\* main: start
\* ------------------------------------------------------------------------

\* if clear_mapping: os.remove(MAPPING_FILE) when it exists (rmOk: the
\* removal did not raise)
AfterClear(file, clear_mapping, rmOk) ==
    IF clear_mapping /\ file.exists /\ rmOk THEN NoFile ELSE file

\* StatsAtStart with a fault: every invocation of main starts from zero
StatsAtStartFromZero(st) == ZeroStats

\* if stats is None: stats = {"total":0, "matched":0, "uploaded":0}
StatsAtStart(st) == IF st = NoStats THEN ZeroStats ELSE st

\* load_config or connect_plex fails: sys.exit(1), after the mapping file
\* was cleared
MainFatal ==
    /\ pc = "main"
    /\ \E rmOk \in BOOLEAN :
         mappingFile' = AfterClear(mappingFile, args.clear_mapping, rmOk)
    /\ pc' = "exit1"
    /\ UNCHANGED <<args, sections, fs, frames, stats, location_map, cur, results,
                   ridx, summaries, queries, run, last, processed,
                   uploadCalls, uploadFails, probeCalls>>

\* The invocation goes on to its mode with the sorted mapping
EnterMode(m) ==
    /\ location_map' = SortedMap(m)
    /\ stats' = StatsAtStart(stats)
    /\ frames' = Append(frames, FALSE)
    /\ pc' = IF args.search THEN "search" ELSE "bulk"
    /\ cur' = [sec |-> 1, idx |-> 0]
    /\ results' = <<>>
    /\ ridx' = 0

\* The mapping file exists and --clear-mapping is not given: json.load
MainLoad ==
    /\ pc = "main"
    /\ mappingFile.exists /\ ~args.clear_mapping
    /\ EnterMode(mappingFile.data)
    /\ UNCHANGED <<args, mappingFile, sections, fs, summaries, queries, run, last,
                   processed,
                   uploadCalls, uploadFails, probeCalls>>

\* What the operator may answer to a prompt: an existing directory, or
\* something that is none (NoneVal)
Answers == {LocalX, NoneVal}

\* No mapping file, or --clear-mapping: prompt for every location, json.dump
MainPopulate ==
    /\ pc = "main"
    /\ ~(mappingFile.exists /\ ~args.clear_mapping)
    /\ \E answers \in [1..Len(PromptLocations(sections)) -> Answers] :
         LET m == Populate(PromptLocations(sections), answers, <<>>)
         IN  /\ mappingFile' = FileOf(m)
             /\ EnterMode(m)
    /\ UNCHANGED <<args, sections, fs, summaries, queries, run, last, processed,
                   uploadCalls, uploadFails, probeCalls>>

\* ------------------------------------------------------------------------
\* main: one item
\* ------------------------------------------------------------------------

UploadFailures == UploadResults \ {"ok"}

\* What item.uploadLogo(filepath=logo_path) can do for this item: it reads
\* the file, which raises when logo_path is a directory
UploadOutcomes(item, sectionType) ==
    LET r == process_item(item, sectionType, location_map, args.all \/ args.search,
                          args.dry_run, ZeroStats, fs, "ok")
    IN  IF r.logo_path # NoneVal /\ KindOf(fs, r.local_folder, r.logo_path) = "dir"
        THEN UploadFailures
        ELSE UploadResults

\* The server applies an uploaded logo: the item carries a clearLogo image
WithLogo(images) == IF HasLogo(images) THEN images ELSE Append(images, "clearLogo")

\* stats["total"] += 1; stats = process_item(...), for item idx of section sec
ProcessRef(sec, idx, sectionType, upres) ==
    LET item == sections[sec].items[idx]
        r == process_item(item, sectionType, location_map, args.all \/ args.search,
                          args.dry_run, [stats EXCEPT !.total = @ + 1], fs, upres)
    IN  /\ stats' = r.stats
        /\ last' = [item |-> <<sec, idx>>, type |-> sectionType,
                    has_logo |-> HasLogo(item.images), before |-> stats] @@ r
        /\ processed' = processed + 1
        /\ sections' = IF r.outcome = "uploaded"
                       THEN [sections EXCEPT ![sec].items[idx].images = WithLogo(@)]
                       ELSE sections
        /\ uploadCalls' = uploadCalls + r.uploads
        /\ uploadFails' = uploadFails +
                          (IF r.uploads = 1 /\ r.outcome # "uploaded" THEN 1 ELSE 0)
        /\ probeCalls' = probeCalls + r.probes

\* === SUMMARY ===: printed when displaySummary is set
Summary(displaySummary) ==
    summaries' = IF displaySummary
                 THEN Append(summaries, [run |-> run, stats |-> stats,
                                         dry_run |-> args.dry_run])
                 ELSE summaries

\* main returns: to the invocation that called it, or the process ends
ReturnFromMain ==
    /\ frames' = SubSeq(frames, 1, Len(frames) - 1)
    /\ pc' = IF Len(frames) = 1 THEN "done" ELSE "return"

\* ------------------------------------------------------------------------
\* main: bulk mode
\* ------------------------------------------------------------------------

Eligible(section) == section.type \in {"movie", "show"}

\* for section in plex.library.sections(): skip it unless movie or show;
\* items = section.all()
BulkSection ==
    /\ pc = "bulk"
    /\ cur.idx = 0
    /\ cur.sec <= Len(sections)
    /\ cur' = IF Eligible(sections[cur.sec]) /\ sections[cur.sec].items # <<>>
              THEN [sec |-> cur.sec, idx |-> 1]
              ELSE [sec |-> cur.sec + 1, idx |-> 0]
    /\ UNCHANGED <<args, mappingFile, sections, fs, pc, frames, stats, location_map,
                   results, ridx, summaries, queries, run, last, processed,
                   uploadCalls, uploadFails, probeCalls>>

\* for idx, item in enumerate(items, 1): the body of the loop
BulkItem ==
    /\ pc = "bulk"
    /\ cur.idx >= 1
    /\ \E upres \in UploadOutcomes(sections[cur.sec].items[cur.idx],
                                  sections[cur.sec].type) :
         ProcessRef(cur.sec, cur.idx, sections[cur.sec].type, upres)
    /\ cur' = IF cur.idx < Len(sections[cur.sec].items)
              THEN [sec |-> cur.sec, idx |-> cur.idx + 1]
              ELSE [sec |-> cur.sec + 1, idx |-> 0]
    /\ UNCHANGED <<args, mappingFile, fs, pc, frames, location_map, results, ridx,
                   summaries, queries, run>>

\* The sections are exhausted: displaySummary = True, the summary, return
BulkFinish ==
    /\ pc = "bulk"
    /\ cur.idx = 0
    /\ cur.sec > Len(sections)
    /\ Summary(TRUE)
    /\ ReturnFromMain
    /\ UNCHANGED <<args, mappingFile, sections, fs, stats, location_map, cur,
                   results, ridx, queries, run, last, processed,
                   uploadCalls, uploadFails, probeCalls>>

\* ------------------------------------------------------------------------
\* main: search mode
\* ------------------------------------------------------------------------

\* The items of the movie and show sections, in section and item order
ItemRefs ==
    UNION {{<<s, i>> : i \in 1..Len(sections[s].items)} :
             s \in {t \in 1..Len(sections) : Eligible(sections[t])}}

RefBefore(a, b) == a[1] < b[1] \/ (a[1] = b[1] /\ a[2] < b[2])

\* The matches in order
RECURSIVE InOrder(_)
InOrder(refs) ==
    IF refs = {} THEN <<>>
    ELSE LET first == CHOOSE a \in refs : \A b \in refs \ {a} : RefBefore(a, b)
         IN  <<first>> \o InOrder(refs \ {first})

\* search_titles: the matches of every movie and show section, cut at
\* max_results
search_titles(matches, max_results) ==
    LET all == InOrder(matches)
    IN  IF Len(all) > max_results THEN SubSeq(all, 1, max_results) ELSE all

SearchKeep ==
    UNCHANGED <<args, mappingFile, fs, frames, location_map, cur, summaries,
                queries, run>>

\* No result, or the operator quits the selection: nothing is processed
SearchNothing ==
    /\ pc = "search"
    /\ pc' = "again"
    /\ UNCHANGED <<sections, stats, last, processed, uploadCalls, uploadFails,
                   probeCalls,
                   results, ridx>>
    /\ SearchKeep

\* What a query can return: the matches of any set of items
SearchResults == {search_titles(matches, args.max_results) : matches \in SUBSET ItemRefs}

\* One result, or the operator selects one of several
SearchOne ==
    /\ pc = "search"
    /\ \E ref \in UNION {{found[k] : k \in 1..Len(found)} : found \in SearchResults} :
         \E upres \in UploadOutcomes(sections[ref[1]].items[ref[2]],
                                     sections[ref[1]].type) :
           ProcessRef(ref[1], ref[2], sections[ref[1]].type, upres)
    /\ pc' = "again"
    /\ UNCHANGED <<results, ridx>>
    /\ SearchKeep

\* Several results and the operator answers 'a': the loop over the results
SearchAll ==
    /\ pc = "search"
    /\ \E found \in SearchResults :
         /\ Len(found) > 1
         /\ results' = found
    /\ ridx' = 1
    /\ pc' = "search_all"
    /\ UNCHANGED <<sections, stats, last, processed, uploadCalls, uploadFails,
                   probeCalls>>
    /\ SearchKeep

\* for r in results: the body of the loop
SearchAllItem ==
    /\ pc = "search_all"
    /\ \E upres \in UploadOutcomes(sections[results[ridx][1]].items[results[ridx][2]],
                                  sections[results[ridx][1]].type) :
         ProcessRef(results[ridx][1], results[ridx][2],
                    sections[results[ridx][1]].type, upres)
    /\ ridx' = ridx + 1
    /\ pc' = IF ridx < Len(results) THEN "search_all" ELSE "again"
    /\ UNCHANGED results
    /\ SearchKeep

\* "Do you want to update another ClearLogo?" y: main(stats)
AgainYes ==
    /\ pc = "again"
    /\ queries < MaxQueries
    /\ queries' = queries + 1
    /\ pc' = "main"
    /\ UNCHANGED <<args, mappingFile, sections, fs, frames, stats, location_map, cur,
                   results, ridx, summaries, run, last, processed,
                   uploadCalls, uploadFails, probeCalls>>

\* Any other answer: displaySummary = True, the summary, return
AgainNo ==
    /\ pc = "again"
    /\ Summary(TRUE)
    /\ ReturnFromMain
    /\ UNCHANGED <<args, mappingFile, sections, fs, stats, location_map, cur,
                   results, ridx, queries, run, last, processed,
                   uploadCalls, uploadFails, probeCalls>>

\* main(stats) has returned into the invocation that called it, whose
\* displaySummary is still what it was set to at its start
MainReturn ==
    /\ pc = "return"
    /\ Summary(frames[Len(frames)])
    /\ ReturnFromMain
    /\ UNCHANGED <<args, mappingFile, sections, fs, stats, location_map, cur,
                   results, ridx, queries, run, last, processed,
                   uploadCalls, uploadFails, probeCalls>>

\* The operator starts the script again with the same arguments
Rerun ==
    /\ pc = "done"
    /\ run < MaxRuns
    /\ run' = run + 1
    /\ pc' = "main"
    /\ stats' = NoStats
    /\ frames' = <<>>
    /\ queries' = 1
    /\ location_map' = <<>>
    /\ cur' = [sec |-> 1, idx |-> 0]
    /\ last' = NoCall
    /\ processed' = 0
    /\ uploadCalls' = 0
    /\ uploadFails' = 0
    /\ probeCalls' = 0
    /\ UNCHANGED <<args, mappingFile, sections, fs, results, ridx, summaries>>

\* ------------------------------------------------------------------------
\* Specifications
\* ------------------------------------------------------------------------

\* A session: a library of one artist and one movie section below /a
SessionArgs ==
    ArgsPool({FALSE}, BOOLEAN) \cup
    {a \in ArgsPool({TRUE}, BOOLEAN) : ~a.all}

SessionItems == [path : {Abs(<<SegA, SegA, SegA>>)}, images : ImagePool]

SessionLibraries ==
    {<<ArtistSection,
       [type |-> "movie", locations |-> <<Abs(<<SegA>>)>>, items |-> its]>> :
        its \in SeqsUpTo(SessionItems, MaxItems)}

\* No mapping file, or one whose shorter key comes first
SessionFiles ==
    {NoFile, FileOf(<<[key |-> Abs(<<SegA>>), val |-> LocalY],
                      [key |-> Abs(<<SegA, SegA>>), val |-> LocalX]>>)}

SessionFilesystems ==
    {{},
     {File(LocalX \o Abs(<<SegA>>), 1, "file")}}

Init == InitWith(SessionArgs, SessionFiles, SessionLibraries, SessionFilesystems)

Next ==
    \/ MainFatal
    \/ MainLoad
    \/ MainPopulate
    \/ BulkSection
    \/ BulkItem
    \/ BulkFinish
    \/ SearchNothing
    \/ SearchOne
    \/ SearchAll
    \/ SearchAllItem
    \/ AgainYes
    \/ AgainNo
    \/ MainReturn

Spec == Init /\ [][Next]_vars

\* Bulk mode started up to MaxRuns times on the same server and filesystem
BulkArgs == ArgsPool({FALSE}, BOOLEAN)

BulkItems == [path : {Abs(<<SegA, SegA, SegA>>), NoneVal}, images : ImagePool]

BulkLibraries ==
    {<<ArtistSection,
       [type |-> "movie", locations |-> <<Abs(<<SegA>>)>>, items |-> its]>> :
        its \in SeqsUpTo(BulkItems, MaxItems)}

BulkFilesystems ==
    SessionFilesystems \cup {{File(LocalX \o Abs(<<SegA>>), 1, "dir")}}

InitBulk == InitWith(BulkArgs, SessionFiles, BulkLibraries, BulkFilesystems)

NextBulk ==
    \/ MainFatal
    \/ MainLoad
    \/ MainPopulate
    \/ BulkSection
    \/ BulkItem
    \/ BulkFinish
    \/ Rerun

SpecBulk == InitBulk /\ [][NextBulk]_vars

\* One item in bulk mode, its remote path, the mapping file and the local
\* directory drawn from larger sets
ItemArgs == {a \in ArgsPool(BOOLEAN, {FALSE}) : ~a.all}

Segments == {SegA, SegAA}

\* The absolute remote paths of one to three segments
RemotePaths == {Abs(q) : q \in SeqsUpTo(Segments, 3) \ {<<>>}}

\* Mapping keys: roots of one or two segments, one written with a trailing
\* slash, and the empty string
MappingKeys ==
    {Abs(q) : q \in SeqsUpTo(Segments, 2) \ {<<>>}}
    \cup {Abs(<<SegA>>) \o <<Slash>>, <<>>}

\* Mapping files of one or two entries, the first mapped to /x, the second
\* to /y
MappingFiles ==
    {FileOf(<<[key |-> k, val |-> LocalX]>>) : k \in MappingKeys}
    \cup {FileOf(<<[key |-> k[1], val |-> LocalX], [key |-> k[2], val |-> LocalY]>>) :
            k \in {t \in MappingKeys \X MappingKeys : t[1] # t[2]}}

OneItemLibraries(types, paths) ==
    {<<[type |-> t, locations |-> <<Abs(<<SegA>>)>>,
        items |-> <<[path |-> p, images |-> <<"thumb">>]>>]>> :
        t \in types, p \in paths}

\* A local directory holding any combination of the four candidate names,
\* each absent, a regular file or a directory
DirContents(dir) ==
    {{File(dir, k, c[k]) : k \in {j \in DOMAIN Candidates : c[j] # "absent"}} :
        c \in [DOMAIN Candidates -> EntryKinds \cup {"absent"}]}

InitItem ==
    \/ InitWith(ItemArgs, MappingFiles \cup {NoFile},
                OneItemLibraries({"movie", "show"}, RemotePaths), {{}})
    \/ InitWith({a \in ItemArgs : ~a.search},
                {FileOf(<<[key |-> Abs(<<SegA>>), val |-> LocalX]>>)},
                OneItemLibraries({"movie"}, {Abs(<<SegA, SegA, SegA>>)}),
                DirContents(LocalX \o Abs(<<SegA>>)))

\* With one item in the library no search has several results
NextItem ==
    \/ MainFatal
    \/ MainLoad
    \/ MainPopulate
    \/ BulkSection
    \/ BulkItem
    \/ BulkFinish
    \/ SearchNothing
    \/ SearchOne
    \/ AgainYes
    \/ AgainNo
    \/ MainReturn

SpecItem == InitItem /\ [][NextItem]_vars

\* ------------------------------------------------------------------------
\* Properties
\* ------------------------------------------------------------------------

\* process_item has been called in this process
Called == last.outcome # "none"

\* The remote path of the item of the last call
LastPath == sections[last.item[1]].items[last.item[2]].path

\* Two completed bulk runs without --all, --dry-run and --clear-mapping
TwoPlainRuns ==
    /\ run = 2 /\ pc = "done" /\ Len(summaries) = 2
    /\ ~args.all /\ ~args.dry_run /\ ~args.clear_mapping

\* C1 as stated: the second of two bulk runs without --all and --dry-run
\* reports uploaded = 0 and the same matched count as the first
C1_SecondRunSameMatched ==
    TwoPlainRuns =>
        /\ summaries[2].stats.uploaded = 0
        /\ summaries[2].stats.matched = summaries[1].stats.matched

\* C1 as amended: the second run matches exactly the items the first run
\* matched and did not upload (an uploaded item now carries a logo and is
\* skipped before it is matched), uploads none but those, and so reports
\* matched = 0 and uploaded = 0 when every upload of the first run succeeded
C1_SecondRunMatchesTheRest ==
    TwoPlainRuns =>
        /\ summaries[2].stats.matched =
              summaries[1].stats.matched - summaries[1].stats.uploaded
        /\ summaries[2].stats.uploaded <= summaries[2].stats.matched
        /\ (summaries[1].stats.uploaded = summaries[1].stats.matched =>
               summaries[2].stats.uploaded = 0 /\ summaries[2].stats.matched = 0)

\* C1 witness: the first run matched two items and uploaded one of them, the
\* second run matched the other one
C1_Witness ==
    /\ TwoPlainRuns
    /\ summaries[1].stats.matched = 2
    /\ summaries[1].stats.uploaded = 1
    /\ summaries[2].stats.matched = 1

\* C3: in a run with --dry-run, bulk or search, uploadLogo is never called
\* and "uploaded" stays 0, while every call that finds a logo ends as
\* would-upload with "matched" raised by one
C3_DryRunNeverUploads ==
    args.dry_run =>
        /\ uploadCalls = 0
        /\ stats # NoStats => stats.uploaded = 0
        /\ \A r \in 1..Len(summaries) : summaries[r].stats.uploaded = 0
        /\ (Called /\ last.logo_path # NoneVal) =>
               /\ last.outcome = "would-upload"
               /\ last.uploads = 0
               /\ last.stats.matched = last.before.matched + 1
               /\ last.stats.uploaded = 0

\* C3 witness: a dry run of a search session found a logo for the second
\* time
C3_Witness ==
    /\ args.dry_run /\ args.search
    /\ last.outcome = "would-upload"
    /\ stats.matched = 2

\* C4: a call for an item that carries a clearLogo image, without --all and
\* outside search mode, returns as skipped-has-logo: no mapping key was
\* matched, no local folder computed, no exists() and no uploadLogo call
\* made, and "matched" and "uploaded" are what they were
C4_SkipHasLogo ==
    (Called /\ last.has_logo /\ ~(args.all \/ args.search)) =>
        /\ last.outcome = "skipped-has-logo"
        /\ last.matched_location = NoneVal
        /\ last.local_folder = NoFolder
        /\ last.probes = 0
        /\ last.uploads = 0
        /\ last.stats.matched = last.before.matched
        /\ last.stats.uploaded = last.before.uploaded
        /\ last.stats.total = last.before.total + 1

\* C4 witness: the skipped item has a logo file in the folder it resolves to
C4_Witness ==
    /\ Called /\ last.has_logo /\ ~(args.all \/ args.search)
    /\ last.outcome = "skipped-has-logo"
    /\ process_item(sections[last.item[1]].items[last.item[2]], last.type,
                    location_map, TRUE, TRUE, ZeroStats, fs, "ok").outcome
         = "would-upload"

\* The mapping keys the remote path of the last call starts with
MatchingKeys ==
    {location_map[i].key :
        i \in {j \in 1..Len(location_map) : StartsWith(LastPath, location_map[j].key)}}

\* C2: when two or more mapping keys match the remote path, the call (in
\* bulk mode and in every query of a search session) resolves against the
\* longest of them
C2_LongestMatchingKey ==
    (Called /\ LastPath # NoneVal /\ Cardinality(MatchingKeys) >= 2) =>
        /\ last.matched_location \in MatchingKeys
        /\ \A k \in MatchingKeys : Len(k) <= Len(last.matched_location)

\* C2 witness: the second query of a search session resolved an item below
\* two nested roots, the shorter of which comes first in the mapping file
C2_Witness ==
    /\ Called /\ args.search /\ queries = 2
    /\ Len(mappingFile.data) = 2
    /\ Len(mappingFile.data[1].key) < Len(mappingFile.data[2].key)
    /\ mappingFile.data[1].key # <<>>
    /\ Cardinality(MatchingKeys) = 2
    /\ last.matched_location = mappingFile.data[2].key
    /\ last.outcome = "skipped-no-logo-file"

\* The candidates that are regular files in a local folder
RegularFiles(folder) ==
    {k \in DOMAIN Candidates : KindOf(fs, folder, Candidates[k]) = "file"}

\* C5 as stated: the prober returns the first of logo.png, logo.jpg,
\* clearlogo.png, clearlogo.jpg that exists as a regular file in the resolved
\* folder, and reports not-found, "matched" unchanged, when none of the four
\* is a regular file
C5_FirstRegularFile ==
    (Called /\ last.local_folder # NoFolder) =>
        LET files == RegularFiles(last.local_folder)
        IN  IF files = {}
            THEN /\ last.logo_path = NoneVal
                 /\ last.outcome = "skipped-no-logo-file"
                 /\ last.stats.matched = last.before.matched
            ELSE last.logo_path =
                    Candidates[CHOOSE k \in files : \A j \in files : k <= j]

\* C6 as stated, for a show (whose remote path is a folder): for a remote
\* path equal to a mapping key, resolution succeeds with the local root
\* joined with the last segment of the remote path, a folder other than the
\* one resolved for a path one folder deeper
C6_ExactRootFallsBack ==
    (Called /\ last.type = "show" /\ HasKey(location_map, LastPath)) =>
        /\ last.matched_location = LastPath
        /\ last.local_folder =
              JoinPath(PathOf(Lookup(location_map, LastPath)), NameOf(LastPath))
        /\ \A seg \in Segments :
              process_item([path |-> LastPath \o <<Slash>> \o seg, images |-> <<>>],
                           last.type, location_map, TRUE, TRUE, ZeroStats, fs,
                           "ok").local_folder # last.local_folder

\* C10 as stated: the folder joined to the local root is the parent of the
\* remote path for a movie and the remote path itself for a show, relative
\* to the matched root
C10_ShowFolderIsThePath ==
    (Called /\ last.local_folder # NoFolder) =>
        LET dir == IF last.type = "movie" THEN PathOf(Dirname(LastPath))
                   ELSE PathOf(LastPath)
            rel == RelativeTo(dir, PathOf(last.matched_location))
        IN  (rel.ok /\ rel.parts # <<>>) =>
                last.local_folder =
                    JoinPath(PathOf(Lookup(location_map, last.matched_location)),
                             rel.parts)

\* C7: an uploadLogo call that raises (BadRequest, AttributeError or any
\* other exception) leaves "uploaded" as it was and the call returns with
\* "matched" counted; "uploaded" counts exactly the calls that did not
\* raise, every item handed to process_item is counted in "total", a bulk
\* sweep ends only after every item of every movie and show section was
\* processed, and the loop over 'all' search results only after every result
C7_FailedUploadDoesNotAbort ==
    /\ (Called /\ last.uploads = 1 /\ last.outcome # "uploaded") =>
           /\ last.outcome \in {"upload-failed", "unsupported-item-type",
                                "upload-error"}
           /\ last.stats.uploaded = last.before.uploaded
           /\ last.stats.matched = last.before.matched + 1
    /\ stats # NoStats =>
           /\ stats.uploaded + uploadFails = uploadCalls
           /\ stats.total = processed
    /\ (pc = "done" /\ ~args.search) => processed = Cardinality(ItemRefs)
    /\ (pc = "again" /\ results # <<>>) =>
           ridx = Len(results) + 1 /\ processed >= Len(results)

\* C7 witness: a bulk sweep whose first upload raised and whose second item
\* was uploaded
C7_Witness ==
    /\ pc = "done" /\ ~args.search
    /\ uploadFails = 1
    /\ stats.uploaded = 1
    /\ last.item[2] = 2
    /\ last.outcome = "uploaded"

\* C8 as stated, for a session that got past its start: when the process has
\* ended, the summary has been printed exactly once
C8_EndedSessionPrintedSummary ==
    (pc \in {"done", "exit1"} /\ stats # NoStats) => Len(summaries) = 1

\* C9 as stated: once the mapping has been loaded or populated by the first
\* invocation of main, no step of the session (other than a fatal exit)
\* changes the mapping file or the table in memory
C9_MappingReadOnlyAfterLoad ==
    [][(stats # NoStats /\ pc' # "exit1") =>
          (mappingFile' = mappingFile /\ location_map' = location_map)]_vars

\* The directory of the item of the last call: the parent of the remote path
\* of a movie, the remote path of a show
LastDirectory ==
    IF last.type = "movie" THEN PathOf(Dirname(LastPath)) ELSE PathOf(LastPath)

\* dir is root or lies below it, segment by segment
UnderRoot(dir, root) == dir.root = root.root /\ IsPrefixSeq(root.parts, dir.parts)

\* The last call went on to resolve a remote path
Resolving ==
    /\ Called /\ last.type \in {"movie", "show"} /\ LastPath # NoneVal
    /\ ~(last.has_logo /\ ~(args.all \/ args.search))

\* The first key of the mapping that the remote path starts with, as a
\* string, when there is one
FirstMatchingKey ==
    LET hits == {i \in 1..Len(location_map) :
                    StartsWith(LastPath, location_map[i].key)}
    IN  location_map[CHOOSE i \in hits : \A j \in hits : i <= j].key

\* No key is a prefix of the remote path
NotFound == Resolving /\ MatchingKeys = {}

\* The matched key is a prefix of the remote path as a string, and no
\* ancestor of the item's directory
RelativePathError ==
    /\ Resolving /\ MatchingKeys # {}
    /\ FirstMatchingKey # <<>>
    /\ ~UnderRoot(LastDirectory, PathOf(FirstMatchingKey))

\* C11: a call whose remote path no mapping key is a prefix of, or whose
\* matched key is a string prefix but no ancestor of the item's directory,
\* ends as skipped-unmapped: no local folder, no exists() and no uploadLogo
\* call, "matched" and "uploaded" as they were, the item counted in "total",
\* and the run goes on: the call returned its stats, and a bulk run is in
\* its loop or has ended with its summary
C11_ResolutionFailsClosed ==
    (NotFound \/ RelativePathError) =>
        /\ last.outcome = "skipped-unmapped"
        /\ last.local_folder = NoFolder
        /\ last.logo_path = NoneVal
        /\ last.probes = 0
        /\ last.uploads = 0
        /\ last.stats.matched = last.before.matched
        /\ last.stats.uploaded = last.before.uploaded
        /\ last.stats.total = last.before.total + 1
        /\ stats # NoStats /\ stats.total = processed
        /\ ~args.search =>
               /\ pc \in {"bulk", "done"}
               /\ pc = "done" => Len(summaries) = 1

\* C11 witness: a movie at /aa/a/a matched the root /a as a string, was
\* skipped as unmapped, and the bulk run ended with its summary
C11_Witness ==
    /\ RelativePathError
    /\ last.type = "movie"
    /\ LastPath = Abs(<<SegAA, SegA, SegA>>)
    /\ last.matched_location = Abs(<<SegA>>)
    /\ last.outcome = "skipped-unmapped"
    /\ pc = "done" /\ ~args.search
    /\ Len(summaries) = 1
    /\ summaries[1].stats = [total |-> 1, matched |-> 0, uploaded |-> 0]

\* C12: in a session, bulk or search with chained queries, "uploaded" is at
\* most "matched", "matched" at most "total", none is negative; a step that
\* processes an item raises "total" by one, "matched" by at most one and
\* "uploaded" by at most one and never without "matched"; every other step,
\* the start of a chained query among them, leaves the three as they are
C12_CountersInOrder ==
    [][/\ stats' # NoStats =>
              /\ 0 <= stats'.uploaded
              /\ stats'.uploaded <= stats'.matched
              /\ stats'.matched <= stats'.total
       /\ stats # NoStats =>
              /\ stats' # NoStats
              /\ IF processed' = processed + 1
                 THEN /\ stats'.total = stats.total + 1
                      /\ stats'.matched - stats.matched \in {0, 1}
                      /\ stats'.uploaded - stats.uploaded \in {0, 1}
                      /\ stats'.uploaded - stats.uploaded
                            <= stats'.matched - stats.matched
                 ELSE processed' = processed /\ stats' = stats
       /\ stats = NoStats => stats' \in {NoStats, ZeroStats}]_vars

\* C12 witness: the second query of a search session, after three items
\* were processed, all matched, one of the uploads having failed
C12_Witness ==
    /\ args.search /\ ~args.dry_run
    /\ queries = 2 /\ pc = "again"
    /\ stats = [total |-> 3, matched |-> 3, uploaded |-> 2]
    /\ uploadFails = 1

====
